---- MODULE Spec2Model ----
(***************************************************************************)
(* nano::optional_ptr<T> (nano/lib/optional_ptr.hpp): a heap-allocating    *)
(* optional whose handle `ptr` (std::unique_ptr<T>) is guarded by a        *)
(* per-instance non-recursive `mutex`.  Threads call the public members on *)
(* a small set of instances; every member is split into the steps between  *)
(* which another thread can run: lock, each access of a handle, unlock,    *)
(* and the destruction of locals.                                          *)
(***************************************************************************)
EXTENDS Integers, FiniteSets, Sequences, TLC

\* Bounds: the threads calling members, the objects they call them on, the
\* distinct values of T, and the number of calls made in one behaviour.
NumThreads == 2
NumInsts == 2
MaxVal == 2
MaxCalls == 2

Threads == 1..NumThreads
Insts == 1..NumInsts
\* every instance may own a cell and every thread may hold one temporary
NumCells == NumInsts + NumThreads
Cells == 1..NumCells
\* the values of T; Garbage is what a read of released storage may yield
Values == 1..MaxVal
Garbage == MaxVal + 1

nullptr == 0
unlocked == 0

VARIABLES
    build,   \* "debug" (debug_assert active) or "release" (NDEBUG)
    status,  \* status[i]: "dead" (no object), "ctor", "live", "dtor"
    ptr,     \* ptr[i]: the cell the handle owns, or nullptr
    mutex,   \* mutex[i]: the thread holding the instance's mutex, or unlocked
    heap,    \* heap[c]: 0 when the cell is not allocated, else the T it holds
    th,      \* th[t]: the frame of the call thread t is in
    calls    \* number of calls invoked so far

vars == <<build, status, ptr, mutex, heap, th, calls>>

\* The frame of a thread: pc is the statement it is about to execute, this and
\* other the instances of the call, ret where a nested presence query returns
\* to, res the bool that query returned, ref the raw pointer last read,
\* new_ptr the local unique_ptr of operator=(T const &), value the caller's T
\* that the T const & parameter refers to.  Two fields are bookkeeping: stale,
\* whether the cell ref points to was released after ref was read, and seen,
\* the T that cell held when a copy read ref from `other`.
Idle == [pc |-> "idle", this |-> 0, other |-> 0, ret |-> "idle", res |-> FALSE,
         ref |-> nullptr, new_ptr |-> nullptr, value |-> 0, stale |-> FALSE, seen |-> 0]

\* the process was terminated: every thread stopped where it was
Aborted == \E t \in Threads : th[t].pc = "fault"

Abort == [t \in Threads |-> [th[t] EXCEPT !.pc = "fault"]]

\* an instance no other thread's call refers to
Unused(t, i) ==
    \A u \in Threads \ {t} : th[u].pc = "idle" \/ (th[u].this # i /\ th[u].other # i)

Init ==
    /\ build \in {"debug", "release"}
    /\ \E v \in [Insts -> -1..MaxVal] :
        /\ status = [i \in Insts |-> IF v[i] = -1 THEN "dead" ELSE "live"]
        /\ ptr = [i \in Insts |-> IF v[i] > 0 THEN i ELSE nullptr]
        /\ heap = [c \in Cells |-> IF c \in Insts THEN (IF v[c] > 0 THEN v[c] ELSE 0) ELSE 0]
    /\ mutex = [i \in Insts |-> unlocked]
    /\ th = [t \in Threads |-> Idle]
    /\ calls = 0

----------------------------------------------------------------------------
\* Helpers

\* nano::lock_guard<nano::mutex> lock{ mutex }: blocks until the mutex is free
Lock(t, i, next) ==
    /\ mutex[i] = unlocked
    /\ mutex' = [mutex EXCEPT ![i] = t]
    /\ th' = [th EXCEPT ![t].pc = next]
    /\ UNCHANGED <<build, status, ptr, heap, calls>>

\* every frame whose raw pointer refers to cell c now dangles
MarkStale(f, c) ==
    [u \in Threads |-> IF c # nullptr /\ f[u].ref = c THEN [f[u] EXCEPT !.stale = TRUE] ELSE f[u]]

\* a delete that is forgotten
ReleaseNothing(h, c) == h

\* delete of the cell c (no-op for nullptr)
Release(h, c) == IF c = nullptr THEN h ELSE [h EXCEPT ![c] = 0]

\* what copy-constructing a T from the cell frame f points to can produce
CopyOf(f) == IF f.stale THEN Values \cup {Garbage} ELSE {heap[f.ref]}

\* the invocation of a member: the thread enters it at statement l
Invoke(t, i, o, v, l) ==
    /\ th[t].pc = "idle"
    /\ calls < MaxCalls
    /\ calls' = calls + 1
    /\ th' = [th EXCEPT ![t] = [Idle EXCEPT !.pc = l, !.this = i, !.other = o, !.value = v]]
    /\ UNCHANGED <<build, ptr, mutex, heap>>

\* return to the caller
Return(t) == th' = [th EXCEPT ![t] = Idle]

----------------------------------------------------------------------------
\* explicit optional_ptr ()

CtorEmpty(t, i) ==
    /\ status[i] = "dead"
    /\ Invoke(t, i, 0, 0, "ce_lock")
    /\ status' = [status EXCEPT ![i] = "ctor"]

CtorEmptyLock(t) ==
    /\ th[t].pc = "ce_lock"
    /\ Lock(t, th[t].this, "ce_set")

CtorEmptySet(t) ==
    /\ th[t].pc = "ce_set"
    /\ ptr' = [ptr EXCEPT ![th[t].this] = nullptr]
    /\ th' = [th EXCEPT ![t].pc = "ce_unlock"]
    /\ UNCHANGED <<build, status, mutex, heap, calls>>

CtorEmptyUnlock(t) ==
    /\ th[t].pc = "ce_unlock"
    /\ mutex' = [mutex EXCEPT ![th[t].this] = unlocked]
    /\ status' = [status EXCEPT ![th[t].this] = "live"]
    /\ Return(t)
    /\ UNCHANGED <<build, ptr, heap, calls>>

----------------------------------------------------------------------------
\* explicit optional_ptr (T const & value)

CtorValue(t, i, v) ==
    /\ status[i] = "dead"
    /\ Invoke(t, i, 0, v, "cv_lock")
    /\ status' = [status EXCEPT ![i] = "ctor"]

CtorValueLock(t) ==
    /\ th[t].pc = "cv_lock"
    /\ Lock(t, th[t].this, "cv_make")


\* ptr = std::make_unique<T> (), the argument forgotten
CtorValueMakeDefault(t) ==
    /\ th[t].pc = "cv_make"
    /\ \E c \in Cells :
        /\ heap[c] = 0
        /\ heap' = [heap EXCEPT ![c] = Garbage]
        /\ ptr' = [ptr EXCEPT ![th[t].this] = c]
    /\ th' = [th EXCEPT ![t].pc = "cv_unlock"]
    /\ UNCHANGED <<build, status, mutex, calls>>

\* ptr = std::make_unique<T> (value)
CtorValueMake(t) ==
    /\ th[t].pc = "cv_make"
    /\ \E c \in Cells :
        /\ heap[c] = 0
        /\ heap' = [heap EXCEPT ![c] = th[t].value]
        /\ ptr' = [ptr EXCEPT ![th[t].this] = c]
    /\ th' = [th EXCEPT ![t].pc = "cv_unlock"]
    /\ UNCHANGED <<build, status, mutex, calls>>

CtorValueUnlock(t) ==
    /\ th[t].pc = "cv_unlock"
    /\ mutex' = [mutex EXCEPT ![th[t].this] = unlocked]
    /\ status' = [status EXCEPT ![th[t].this] = "live"]
    /\ th' = [th EXCEPT ![t].pc = "caller"]
    /\ UNCHANGED <<build, ptr, heap, calls>>

\* after the call the caller changes the T it passed by reference, and the
\* variable goes out of scope
CallerMutates(t) ==
    /\ th[t].pc = "caller"
    /\ \E w \in Values \ {th[t].value} :
        th' = [th EXCEPT ![t] = [Idle EXCEPT !.pc = "scope", !.this = th[t].this, !.value = w]]
    /\ UNCHANGED <<build, status, ptr, mutex, heap, calls>>

CallerLeaves(t) ==
    /\ th[t].pc = "scope"
    /\ Return(t)
    /\ UNCHANGED <<build, status, ptr, mutex, heap, calls>>

----------------------------------------------------------------------------
\* explicit operator bool () const, on its own or as the `other` of
\* `other && other.ptr` in the copy constructor and in operator=

\* the instance a presence query runs on: `other` when nested in a copy,
\* `this` otherwise
QueryThis(t) == IF th[t].ret \in {"cc_test", "ac_test"} THEN th[t].other ELSE th[t].this

OperatorBool(t, i) ==
    /\ status[i] = "live"
    /\ Invoke(t, i, 0, 0, "ob_lock")
    /\ UNCHANGED status

OperatorBoolLock(t) ==
    /\ th[t].pc = "ob_lock"
    /\ Lock(t, QueryThis(t), "ob_read")

\* a variant that reports an empty handle as present
OperatorBoolReadInverted(t) ==
    /\ th[t].pc = "ob_read"
    /\ th' = [th EXCEPT ![t].pc = "ob_unlock", ![t].res = (ptr[QueryThis(t)] = nullptr)]
    /\ UNCHANGED <<build, status, ptr, mutex, heap, calls>>

\* return static_cast<bool> (ptr)
OperatorBoolRead(t) ==
    /\ th[t].pc = "ob_read"
    /\ th' = [th EXCEPT ![t].pc = "ob_unlock", ![t].res = (ptr[QueryThis(t)] # nullptr)]
    /\ UNCHANGED <<build, status, ptr, mutex, heap, calls>>

OperatorBoolUnlock(t) ==
    /\ th[t].pc = "ob_unlock"
    /\ mutex' = [mutex EXCEPT ![QueryThis(t)] = unlocked]
    /\ IF th[t].ret = "idle"
       THEN Return(t)
       ELSE th' = [th EXCEPT ![t].pc = th[t].ret, ![t].ret = "idle"]
    /\ UNCHANGED <<build, status, ptr, heap, calls>>

----------------------------------------------------------------------------
\* bool is_initialized () const, on its own or inside get ()'s debug_assert

IsInitialized(t, i) ==
    /\ status[i] = "live"
    /\ Invoke(t, i, 0, 0, "ii_lock")
    /\ UNCHANGED status

IsInitializedLock(t) ==
    /\ th[t].pc = "ii_lock"
    /\ Lock(t, QueryThis(t), "ii_read")

IsInitializedRead(t) ==
    /\ th[t].pc = "ii_read"
    /\ th' = [th EXCEPT ![t].pc = "ii_unlock", ![t].res = (ptr[QueryThis(t)] # nullptr)]
    /\ UNCHANGED <<build, status, ptr, mutex, heap, calls>>

IsInitializedUnlock(t) ==
    /\ th[t].pc = "ii_unlock"
    /\ mutex' = [mutex EXCEPT ![QueryThis(t)] = unlocked]
    /\ IF th[t].ret = "idle"
       THEN Return(t)
       ELSE th' = [th EXCEPT ![t].pc = th[t].ret, ![t].ret = "idle"]
    /\ UNCHANGED <<build, status, ptr, heap, calls>>

----------------------------------------------------------------------------
\* explicit optional_ptr (optional_ptr const & other)
\*   ptr = (other && other.ptr) ? std::make_unique<T> (*other.ptr) : nullptr

CtorCopy(t, i, o) ==
    /\ status[i] = "dead"
    /\ status[o] = "live"
    /\ Invoke(t, i, o, 0, "cc_lock")
    /\ status' = [status EXCEPT ![i] = "ctor"]

\* lock{ mutex }, then the call of other.operator bool ()
CtorCopyLock(t) ==
    /\ th[t].pc = "cc_lock"
    /\ mutex[th[t].this] = unlocked
    /\ mutex' = [mutex EXCEPT ![th[t].this] = t]
    /\ th' = [th EXCEPT ![t].pc = "ob_lock", ![t].ret = "cc_test"]
    /\ UNCHANGED <<build, status, ptr, heap, calls>>

\* `&& other.ptr`: evaluated only when `other` converted to true
CtorCopyTest(t) ==
    /\ th[t].pc = "cc_test"
    /\ th' = [th EXCEPT ![t].pc =
                 IF th[t].res /\ ptr[th[t].other] # nullptr THEN "cc_deref" ELSE "cc_null"]
    /\ UNCHANGED <<build, status, ptr, mutex, heap, calls>>

\* *other.ptr: the reference make_unique is given
CtorCopyDeref(t) ==
    /\ th[t].pc = "cc_deref"
    /\ th' = [th EXCEPT ![t].pc = "cc_make", ![t].ref = ptr[th[t].other],
                         ![t].stale = FALSE, ![t].seen = heap[ptr[th[t].other]]]
    /\ UNCHANGED <<build, status, ptr, mutex, heap, calls>>

\* ptr = std::make_unique<T> (that reference)
CtorCopyMake(t) ==
    /\ th[t].pc = "cc_make"
    /\ \E c \in Cells, v \in CopyOf(th[t]) :
        /\ heap[c] = 0
        /\ heap' = [heap EXCEPT ![c] = v]
        /\ ptr' = [ptr EXCEPT ![th[t].this] = c]
    /\ th' = [th EXCEPT ![t].pc = "cc_unlock", ![t].ref = nullptr]
    /\ UNCHANGED <<build, status, mutex, calls>>


\* a copy of an empty instance that allocates a default T instead of nullptr
CtorCopyNullDefault(t) ==
    /\ th[t].pc = "cc_null"
    /\ \E c \in Cells :
        /\ heap[c] = 0
        /\ heap' = [heap EXCEPT ![c] = Garbage]
        /\ ptr' = [ptr EXCEPT ![th[t].this] = c]
    /\ th' = [th EXCEPT ![t].pc = "cc_unlock"]
    /\ UNCHANGED <<build, status, mutex, calls>>

CtorCopyNull(t) ==
    /\ th[t].pc = "cc_null"
    /\ ptr' = [ptr EXCEPT ![th[t].this] = nullptr]
    /\ th' = [th EXCEPT ![t].pc = "cc_unlock"]
    /\ UNCHANGED <<build, status, mutex, heap, calls>>

CtorCopyUnlock(t) ==
    /\ th[t].pc = "cc_unlock"
    /\ mutex' = [mutex EXCEPT ![th[t].this] = unlocked]
    /\ status' = [status EXCEPT ![th[t].this] = "live"]
    /\ Return(t)
    /\ UNCHANGED <<build, ptr, heap, calls>>

----------------------------------------------------------------------------
\* optional_ptr & operator= (optional_ptr const & other)

AssignCopy(t, i, o) ==
    /\ status[i] = "live"
    /\ status[o] = "live"
    /\ Invoke(t, i, o, 0, "ac_lock")
    /\ UNCHANGED status

\* a variant that tests and copies without taking the destination's lock
AssignCopyLockSkipped(t) ==
    /\ th[t].pc = "ac_lock"
    /\ th' = [th EXCEPT ![t].pc = "ob_lock", ![t].ret = "ac_test"]
    /\ UNCHANGED <<build, status, ptr, mutex, heap, calls>>

AssignCopyLock(t) ==
    /\ th[t].pc = "ac_lock"
    /\ mutex[th[t].this] = unlocked
    /\ mutex' = [mutex EXCEPT ![th[t].this] = t]
    /\ th' = [th EXCEPT ![t].pc = "ob_lock", ![t].ret = "ac_test"]
    /\ UNCHANGED <<build, status, ptr, heap, calls>>


\* a copy assignment that resets the destination when the source is empty
AssignCopyTestReset(t) ==
    /\ th[t].pc = "ac_test"
    /\ IF th[t].res /\ ptr[th[t].other] # nullptr
       THEN /\ th' = [th EXCEPT ![t].pc = "ac_deref"]
            /\ UNCHANGED <<ptr, heap>>
       ELSE /\ heap' = Release(heap, ptr[th[t].this])
            /\ ptr' = [ptr EXCEPT ![th[t].this] = nullptr]
            /\ th' = MarkStale([th EXCEPT ![t].pc = "ac_unlock"], ptr[th[t].this])
    /\ UNCHANGED <<build, status, mutex, calls>>

\* if (other && other.ptr)
AssignCopyTest(t) ==
    /\ th[t].pc = "ac_test"
    /\ th' = [th EXCEPT ![t].pc =
                 IF th[t].res /\ ptr[th[t].other] # nullptr THEN "ac_deref" ELSE "ac_unlock"]
    /\ UNCHANGED <<build, status, ptr, mutex, heap, calls>>

AssignCopyDeref(t) ==
    /\ th[t].pc = "ac_deref"
    /\ th' = [th EXCEPT ![t].pc = "ac_make", ![t].ref = ptr[th[t].other],
                         ![t].stale = FALSE, ![t].seen = heap[ptr[th[t].other]]]
    /\ UNCHANGED <<build, status, ptr, mutex, heap, calls>>


\* a shallow copy: the destination takes the source's cell instead of a new one
AssignCopyMakeShallow(t) ==
    /\ th[t].pc = "ac_make"
    /\ ~th[t].stale
    /\ heap' = Release(heap, ptr[th[t].this])
    /\ ptr' = [ptr EXCEPT ![th[t].this] = th[t].ref]
    /\ th' = MarkStale([th EXCEPT ![t].pc = "ac_unlock", ![t].ref = nullptr], ptr[th[t].this])
    /\ UNCHANGED <<build, status, mutex, calls>>

\* ptr = std::make_unique<T> (*other.ptr): the old cell is deleted once the
\* new one is in place
AssignCopyMake(t) ==
    /\ th[t].pc = "ac_make"
    /\ \E c \in Cells, v \in CopyOf(th[t]) :
        /\ heap[c] = 0
        /\ heap' = Release([heap EXCEPT ![c] = v], ptr[th[t].this])
        /\ ptr' = [ptr EXCEPT ![th[t].this] = c]
    /\ th' = MarkStale([th EXCEPT ![t].pc = "ac_unlock", ![t].ref = nullptr], ptr[th[t].this])
    /\ UNCHANGED <<build, status, mutex, calls>>

AssignCopyUnlock(t) ==
    /\ th[t].pc = "ac_unlock"
    /\ mutex' = [mutex EXCEPT ![th[t].this] = unlocked]
    /\ Return(t)
    /\ UNCHANGED <<build, status, ptr, heap, calls>>

----------------------------------------------------------------------------
\* optional_ptr & operator= (T const & t_object)

AssignValue(t, i, v) ==
    /\ status[i] = "live"
    /\ Invoke(t, i, 0, v, "av_make")
    /\ UNCHANGED status

\* auto new_ptr = std::make_unique<T> (t_object)
AssignValueMake(t) ==
    /\ th[t].pc = "av_make"
    /\ \E c \in Cells :
        /\ heap[c] = 0
        /\ heap' = [heap EXCEPT ![c] = th[t].value]
        /\ th' = [th EXCEPT ![t].pc = "av_lock", ![t].new_ptr = c]
    /\ UNCHANGED <<build, status, ptr, mutex, calls>>

\* a variant that swaps without taking the lock
AssignValueLockSkipped(t) ==
    /\ th[t].pc = "av_lock"
    /\ th' = [th EXCEPT ![t].pc = "av_swap"]
    /\ UNCHANGED <<build, status, ptr, mutex, heap, calls>>

AssignValueLock(t) ==
    /\ th[t].pc = "av_lock"
    /\ Lock(t, th[t].this, "av_swap")

\* a variant that stores the new cell in the handle and keeps it in new_ptr,
\* so that the new cell is deleted at the end of the call and the old is not
AssignValueSwapKeepsNew(t) ==
    /\ th[t].pc = "av_swap"
    /\ ptr' = [ptr EXCEPT ![th[t].this] = th[t].new_ptr]
    /\ th' = [th EXCEPT ![t].pc = "av_unlock"]
    /\ UNCHANGED <<build, status, mutex, heap, calls>>

\* ptr.swap (new_ptr)
AssignValueSwap(t) ==
    /\ th[t].pc = "av_swap"
    /\ ptr' = [ptr EXCEPT ![th[t].this] = th[t].new_ptr]
    /\ th' = [th EXCEPT ![t].pc = "av_unlock", ![t].new_ptr = ptr[th[t].this]]
    /\ UNCHANGED <<build, status, mutex, heap, calls>>

\* ~lock_guard: locals are destroyed in reverse order, the lock first
AssignValueUnlock(t) ==
    /\ th[t].pc = "av_unlock"
    /\ mutex' = [mutex EXCEPT ![th[t].this] = unlocked]
    /\ th' = [th EXCEPT ![t].pc = "av_free"]
    /\ UNCHANGED <<build, status, ptr, heap, calls>>

\* ~unique_ptr of new_ptr, which now holds the old cell
AssignValueFree(t) ==
    /\ th[t].pc = "av_free"
    /\ heap' = Release(heap, th[t].new_ptr)
    /\ th' = MarkStale([th EXCEPT ![t] = Idle], th[t].new_ptr)
    /\ UNCHANGED <<build, status, ptr, mutex, calls>>

----------------------------------------------------------------------------
\* ~optional_ptr (): the caller destroys an object no other call is using

Dtor(t, i) ==
    /\ status[i] = "live"
    /\ Unused(t, i)
    /\ Invoke(t, i, 0, 0, "d_lock")
    /\ status' = [status EXCEPT ![i] = "dtor"]

DtorLock(t) ==
    /\ th[t].pc = "d_lock"
    /\ Lock(t, th[t].this, "d_reset")

\* ptr.reset (nullptr)
DtorReset(t) ==
    /\ th[t].pc = "d_reset"
    /\ heap' = Release(heap, ptr[th[t].this])
    /\ ptr' = [ptr EXCEPT ![th[t].this] = nullptr]
    /\ th' = MarkStale([th EXCEPT ![t].pc = "d_unlock"], ptr[th[t].this])
    /\ UNCHANGED <<build, status, mutex, calls>>

DtorUnlock(t) ==
    /\ th[t].pc = "d_unlock"
    /\ mutex' = [mutex EXCEPT ![th[t].this] = unlocked]
    /\ status' = [status EXCEPT ![th[t].this] = "dead"]
    /\ Return(t)
    /\ UNCHANGED <<build, ptr, heap, calls>>

----------------------------------------------------------------------------
\* T & operator* () and its const overload

Deref(t, i) ==
    /\ status[i] = "live"
    /\ Invoke(t, i, 0, 0, "dr_lock")
    /\ UNCHANGED status

\* a variant that looks the handle up without taking the lock
DerefLockSkipped(t) ==
    /\ th[t].pc = "dr_lock"
    /\ th' = [th EXCEPT ![t].pc = "dr_read"]
    /\ UNCHANGED <<build, status, ptr, mutex, heap, calls>>

DerefLock(t) ==
    /\ th[t].pc = "dr_lock"
    /\ Lock(t, th[t].this, "dr_read")

\* return *ptr
DerefRead(t) ==
    /\ th[t].pc = "dr_read"
    /\ th' = [th EXCEPT ![t].pc = "dr_unlock", ![t].ref = ptr[th[t].this], ![t].stale = FALSE]
    /\ UNCHANGED <<build, status, ptr, mutex, heap, calls>>

DerefUnlock(t) ==
    /\ th[t].pc = "dr_unlock"
    /\ mutex' = [mutex EXCEPT ![th[t].this] = unlocked]
    /\ th' = [th EXCEPT ![t].pc = "use"]
    /\ UNCHANGED <<build, status, ptr, heap, calls>>

----------------------------------------------------------------------------
\* T * const operator-> () and its const overload

Arrow(t, i) ==
    /\ status[i] = "live"
    /\ Invoke(t, i, 0, 0, "ar_lock")
    /\ UNCHANGED status

ArrowLock(t) ==
    /\ th[t].pc = "ar_lock"
    /\ Lock(t, th[t].this, "ar_read")

\* return ptr.operator-> ()
ArrowRead(t) ==
    /\ th[t].pc = "ar_read"
    /\ th' = [th EXCEPT ![t].pc = "ar_unlock", ![t].ref = ptr[th[t].this], ![t].stale = FALSE]
    /\ UNCHANGED <<build, status, ptr, mutex, heap, calls>>

ArrowUnlock(t) ==
    /\ th[t].pc = "ar_unlock"
    /\ mutex' = [mutex EXCEPT ![th[t].this] = unlocked]
    /\ th' = [th EXCEPT ![t].pc = "use"]
    /\ UNCHANGED <<build, status, ptr, heap, calls>>

----------------------------------------------------------------------------
\* T * const get () and its const overload

Get(t, i) ==
    /\ status[i] = "live"
    /\ Invoke(t, i, 0, 0, "g_lock")
    /\ UNCHANGED status

\* lock{ mutex }; in a debug build debug_assert then calls is_initialized ()
GetLock(t) ==
    /\ th[t].pc = "g_lock"
    /\ mutex[th[t].this] = unlocked
    /\ mutex' = [mutex EXCEPT ![th[t].this] = t]
    /\ th' = IF build = "debug"
             THEN [th EXCEPT ![t].pc = "ii_lock", ![t].ret = "g_read"]
             ELSE [th EXCEPT ![t].pc = "g_read"]
    /\ UNCHANGED <<build, status, ptr, heap, calls>>

\* debug_assert (...) aborts a debug build when is_initialized () returned
\* false; otherwise return ptr.get ()
GetRead(t) ==
    /\ th[t].pc = "g_read"
    /\ th' = IF build = "debug" /\ ~th[t].res
             THEN Abort
             ELSE [th EXCEPT ![t].pc = "g_unlock", ![t].ref = ptr[th[t].this], ![t].stale = FALSE]
    /\ UNCHANGED <<build, status, ptr, mutex, heap, calls>>

GetUnlock(t) ==
    /\ th[t].pc = "g_unlock"
    /\ mutex' = [mutex EXCEPT ![th[t].this] = unlocked]
    /\ th' = [th EXCEPT ![t].pc = "use"]
    /\ UNCHANGED <<build, status, ptr, heap, calls>>

\* the caller is done with the reference or pointer an accessor returned
UseResult(t) ==
    /\ th[t].pc = "use"
    /\ Return(t)
    /\ UNCHANGED <<build, status, ptr, mutex, heap, calls>>

----------------------------------------------------------------------------
\* Undefined behaviour that ends the process instead of going on

\* the statements that construct a lock_guard, and the mutex each locks
LockLabels == {"ce_lock", "cv_lock", "cc_lock", "ac_lock", "av_lock", "d_lock",
               "dr_lock", "ar_lock", "g_lock", "ob_lock", "ii_lock"}

LockTarget(t) == IF th[t].pc \in {"ob_lock", "ii_lock"} THEN QueryThis(t) ELSE th[t].this

\* a thread about to lock a mutex it already holds
Relocking(t) == th[t].pc \in LockLabels /\ mutex[LockTarget(t)] = t

\* locking a std::mutex the thread owns is undefined: the thread either blocks
\* for ever (no step) or the runtime detects it and terminates the process
RelockFault(t) ==
    /\ Relocking(t)
    /\ th' = Abort
    /\ UNCHANGED <<build, status, ptr, mutex, heap, calls>>

\* copy-constructing from released storage may also crash
StaleFault(t) ==
    /\ th[t].pc \in {"cc_make", "ac_make"}
    /\ th[t].stale
    /\ th' = Abort
    /\ UNCHANGED <<build, status, ptr, mutex, heap, calls>>

----------------------------------------------------------------------------
\* the steps of a call thread t is in
Step(t) ==
    \/ CtorEmptyLock(t) \/ CtorEmptySet(t) \/ CtorEmptyUnlock(t)
    \/ CtorValueLock(t) \/ CtorValueMake(t) \/ CtorValueUnlock(t)
    \/ CallerMutates(t) \/ CallerLeaves(t)
    \/ OperatorBoolLock(t) \/ OperatorBoolRead(t) \/ OperatorBoolUnlock(t)
    \/ IsInitializedLock(t) \/ IsInitializedRead(t) \/ IsInitializedUnlock(t)
    \/ CtorCopyLock(t) \/ CtorCopyTest(t) \/ CtorCopyDeref(t) \/ CtorCopyMake(t)
    \/ CtorCopyNull(t) \/ CtorCopyUnlock(t)
    \/ AssignCopyLock(t) \/ AssignCopyTest(t) \/ AssignCopyDeref(t) \/ AssignCopyMake(t)
    \/ AssignCopyUnlock(t)
    \/ AssignValueMake(t) \/ AssignValueLock(t) \/ AssignValueSwap(t)
    \/ AssignValueUnlock(t) \/ AssignValueFree(t)
    \/ DtorLock(t) \/ DtorReset(t) \/ DtorUnlock(t)
    \/ DerefLock(t) \/ DerefRead(t) \/ DerefUnlock(t)
    \/ ArrowLock(t) \/ ArrowRead(t) \/ ArrowUnlock(t)
    \/ GetLock(t) \/ GetRead(t) \/ GetUnlock(t)
    \/ UseResult(t)

\* the calls thread t can make
Call(t) ==
    \E i \in Insts :
        \/ CtorEmpty(t, i)
        \/ \E v \in Values : CtorValue(t, i, v)
        \/ \E o \in Insts \ {i} : CtorCopy(t, i, o)
        \/ \E o \in Insts : AssignCopy(t, i, o)
        \/ \E v \in Values : AssignValue(t, i, v)
        \/ Dtor(t, i)
        \/ Deref(t, i) \/ Arrow(t, i) \/ Get(t, i)
        \/ OperatorBool(t, i) \/ IsInitialized(t, i)

Fault(t) == RelockFault(t) \/ StaleFault(t)

Next == \E t \in Threads : Call(t) \/ Step(t) \/ Fault(t)

Spec == Init /\ [][Next]_vars

\* a scheduler that does not starve a thread whose next step is possible again
\* and again
FairSpec == Spec /\ \A t \in Threads : SF_vars(Step(t))

----------------------------------------------------------------------------
\* Which handle a statement touches

\* the instance whose ptr the next statement of thread t reads or writes, 0
\* when it touches none
Accesses(t) ==
    CASE th[t].pc \in {"ce_set", "cv_make", "cc_make", "cc_null", "ac_make", "av_swap",
                       "d_reset", "dr_read", "ar_read"} -> th[t].this
      [] th[t].pc = "g_read" /\ (build = "release" \/ th[t].res) -> th[t].this
      [] th[t].pc \in {"ob_read", "ii_read"} -> QueryThis(t)
      [] th[t].pc \in {"cc_test", "ac_test"} /\ th[t].res -> th[t].other
      [] th[t].pc \in {"cc_deref", "ac_deref"} -> th[t].other
      [] OTHER -> 0

\* the instance whose cell the next statement of thread t reads through a raw
\* pointer taken from its handle, 0 when it reads none
ReadsCellOf(t) == IF th[t].pc \in {"cc_make", "ac_make"} THEN th[t].other ELSE 0

\* the call of thread t has returned to its caller
Returned(t) == th[t].pc \in {"idle", "caller", "scope", "use"}

----------------------------------------------------------------------------
\* C1: every read or write of an instance's ptr, and every read of another
\* instance's cell by the copy constructor and by copy assignment, is made by
\* a thread that holds that instance's mutex.
C1_SlotAccessUnderLock ==
    \A t \in Threads :
        /\ Accesses(t) # 0 => mutex[Accesses(t)] = t
        /\ ReadsCellOf(t) # 0 => mutex[ReadsCellOf(t)] = t

\* C2: under a fair scheduler every call that was invoked eventually returns.
C2_EveryCallReturns == \A t \in Threads : (~Returned(t)) ~> Returned(t)

\* C3: no thread ever tries to lock a mutex it already holds.
C3_LockedOncePerCall == \A t \in Threads : ~Relocking(t)

\* thread t is inside operator= (optional_ptr const &), its own mutex locked
InAssignCopy(t) ==
    \/ th[t].pc \in {"ac_test", "ac_deref", "ac_make", "ac_unlock"}
    \/ th[t].pc \in {"ob_lock", "ob_read", "ob_unlock"} /\ th[t].ret = "ac_test"

\* the cells that are allocated, and the cells some handle owns
LiveCells == {c \in Cells : heap[c] # 0}
OwnedCells == {ptr[i] : i \in Insts} \ {nullptr}

\* C4: a non-empty handle refers to an allocated cell, and no two instances'
\* handles refer to the same cell.
C4_ExclusiveOwnership ==
    \A i \in Insts :
        ptr[i] # nullptr =>
            /\ heap[ptr[i]] # 0
            /\ \A j \in Insts \ {i} : ptr[j] # ptr[i]

\* a copy assignment has just given the destination a cell while the source
\* still owns one
C4_Witness ==
    \E t \in Threads :
        /\ th[t].pc = "ac_unlock"
        /\ th[t].seen # 0
        /\ ptr[th[t].this] # nullptr
        /\ ptr[th[t].other] # nullptr

\* C5: the copy constructor, given a source it found present, makes the copy
\* present in a cell of its own holding the value the source held when it was
\* read; and no step of an assign_value on one instance changes the handle or
\* the value of any other instance.
C5_CopyEqualsSource ==
    [][\A t \in Threads :
        /\ (th[t].pc = "cc_test" /\ th[t].res /\ th'[t].pc \notin {"cc_test", "fault"})
              => th'[t].pc = "cc_deref"
        /\ (th[t].pc = "cc_make" /\ th'[t].pc = "cc_unlock")
              => /\ ptr'[th[t].this] # nullptr
                 /\ ptr'[th[t].this] # ptr'[th[t].other]
                 /\ heap'[ptr'[th[t].this]] = th[t].seen
        /\ (th[t].pc \in {"av_make", "av_swap", "av_free"} /\ th'[t].pc # th[t].pc)
              => \A i \in Insts \ {th[t].this} :
                    /\ ptr'[i] = ptr[i]
                    /\ ptr[i] # nullptr => heap'[ptr[i]] = heap[ptr[i]]
      ]_vars

\* C6: when assign_value(v) releases the lock the handle owns a cell holding
\* v; the cell the handle owned before is then still allocated and owned by
\* nobody until the call deletes it; and whenever no call is running the
\* allocated cells are exactly the cells the handles own.
C6_AssignValueReplaces ==
    /\ \A t \in Threads :
        /\ th[t].pc = "av_unlock"
              => ptr[th[t].this] # nullptr /\ heap[ptr[th[t].this]] = th[t].value
        /\ (th[t].pc \in {"av_unlock", "av_free"} /\ th[t].new_ptr # nullptr)
              => /\ heap[th[t].new_ptr] # 0
                 /\ \A i \in Insts : ptr[i] # th[t].new_ptr
    /\ (\A t \in Threads : Returned(t)) => LiveCells = OwnedCells

\* assign_value on a present instance swapped the handles and is about to
\* delete the old cell
C6_Witness ==
    \E t \in Threads :
        /\ th[t].pc = "av_free"
        /\ th[t].new_ptr # nullptr
        /\ ptr[th[t].this] # nullptr
        /\ heap[ptr[th[t].this]] = th[t].value

\* C7: copy assignment, given a source it found present, puts into the
\* destination a cell that was not allocated before, is not the source's, and
\* holds the value the source held when it was read, and deletes the cell the
\* destination owned before.
C7_AssignCopyFromPresent ==
    [][\A t \in Threads :
        /\ (th[t].pc = "ac_test" /\ th[t].res /\ th'[t].pc \notin {"ac_test", "fault"})
              => th'[t].pc = "ac_deref"
        /\ (th[t].pc = "ac_make" /\ th'[t].pc = "ac_unlock")
              => /\ ptr'[th[t].this] # nullptr
                 /\ heap[ptr'[th[t].this]] = 0
                 /\ ptr'[th[t].this] # ptr'[th[t].other]
                 /\ heap'[ptr'[th[t].this]] = th[t].seen
                 /\ ptr[th[t].this] # nullptr => heap'[ptr[th[t].this]] = 0
      ]_vars

\* C8: copy assignment that found its source empty goes straight to the
\* unlock, its steps change no handle and no cell, and from the lock to the
\* unlock no step of any thread changes the destination's handle or the value
\* of its cell.
C8_AssignCopyFromEmpty ==
    [][\A t \in Threads :
        /\ (th[t].pc = "ac_test" /\ ~th[t].res /\ th'[t].pc \notin {"ac_test", "fault"})
              => th'[t].pc = "ac_unlock" /\ heap' = heap /\ ptr' = ptr
        /\ (th[t].pc = "ac_unlock" /\ th[t].seen = 0 /\ th'[t].pc \notin {"ac_unlock", "fault"})
              => th'[t].pc = "idle" /\ heap' = heap /\ ptr' = ptr
        /\ (InAssignCopy(t) /\ th[t].pc # "ac_make")
              => /\ ptr'[th[t].this] = ptr[th[t].this]
                 /\ ptr[th[t].this] # nullptr
                       => heap'[ptr[th[t].this]] = heap[ptr[th[t].this]]
      ]_vars

\* a copy assignment from an empty source into a present destination is about
\* to return
C8_Witness ==
    \E t \in Threads :
        /\ th[t].pc = "ac_unlock"
        /\ ~th[t].res
        /\ ptr[th[t].other] = nullptr
        /\ ptr[th[t].this] # nullptr

\* C9: the constructor from a value v puts into the handle a cell that was not
\* allocated before and holds v, the instance is live, present and holds v
\* when the constructor returns, and the caller changing its own T afterwards
\* changes no cell and no handle.
C9_FromValue ==
    [][\A t \in Threads :
        /\ (th[t].pc = "cv_make" /\ th'[t].pc = "cv_unlock")
              => /\ ptr'[th[t].this] # nullptr
                 /\ heap[ptr'[th[t].this]] = 0
                 /\ heap'[ptr'[th[t].this]] = th[t].value
        /\ (th[t].pc = "cv_unlock" /\ th'[t].pc = "caller")
              => /\ status'[th[t].this] = "live"
                 /\ ptr'[th[t].this] # nullptr
                 /\ heap'[ptr'[th[t].this]] = th[t].value
        /\ (th[t].pc = "caller" /\ th'[t].pc = "scope")
              => /\ th'[t].value # th[t].value
                 /\ heap' = heap
                 /\ ptr' = ptr
      ]_vars

\* the constructor from a value returned and the caller changed its T: the
\* instance is live and present
C9_Witness ==
    \E t \in Threads :
        /\ th[t].pc = "scope"
        /\ status[th[t].this] = "live"
        /\ ptr[th[t].this] # nullptr

\* C10: the copy constructor, given a source it found empty, sets the handle
\* to nullptr and allocates nothing, and the copy is empty when it returns.
C10_CopyOfEmpty ==
    [][\A t \in Threads :
        /\ (th[t].pc = "cc_test" /\ ~th[t].res /\ th'[t].pc \notin {"cc_test", "fault"})
              => th'[t].pc = "cc_null" /\ heap' = heap
        /\ (th[t].pc = "cc_null" /\ th'[t].pc \notin {"cc_null", "fault"})
              => th'[t].pc = "cc_unlock" /\ ptr'[th[t].this] = nullptr /\ heap' = heap
        /\ (th[t].pc = "cc_unlock" /\ ~th[t].res /\ th'[t].pc \notin {"cc_unlock", "fault"})
              => /\ status'[th[t].this] = "live"
                 /\ ptr'[th[t].this] = nullptr
                 /\ heap' = heap
      ]_vars

\* the copy constructor found its source empty and is about to return an
\* empty copy
C10_Witness ==
    \E t \in Threads :
        /\ th[t].pc = "cc_unlock"
        /\ ~th[t].res
        /\ ptr[th[t].other] = nullptr
        /\ ptr[th[t].this] = nullptr

----------------------------------------------------------------------------
\* C11: the default constructor leaves the instance live with a null handle;
\* a presence query (operator bool or is_initialized, by any thread, any
\* number of times) that reads a null handle computes false and returns false
\* while the handle is still null; and the handle of a live empty instance
\* becomes non-null only by the swap of an assign_value or the make of a copy
\* assignment on that instance.
C11_EmptyIsNotPresent ==
    [][/\ \A t \in Threads :
            /\ (th[t].pc = "ce_set" /\ th'[t].pc = "ce_unlock")
                  => ptr'[th[t].this] = nullptr
            /\ (th[t].pc = "ce_unlock" /\ th'[t].pc = "idle")
                  => status'[th[t].this] = "live" /\ ptr'[th[t].this] = nullptr
            /\ (/\ th[t].pc \in {"ob_read", "ii_read"}
                /\ th'[t].pc \in {"ob_unlock", "ii_unlock"}
                /\ ptr[QueryThis(t)] = nullptr)
                  => ~th'[t].res
            /\ (/\ th[t].pc \in {"ob_unlock", "ii_unlock"}
                /\ th'[t].pc \notin {"ob_unlock", "ii_unlock", "fault"}
                /\ ptr[QueryThis(t)] = nullptr)
                  => ~th[t].res
       /\ \A i \in Insts :
            (status[i] = "live" /\ ptr[i] = nullptr /\ ptr'[i] # nullptr)
                  => \E t \in Threads :
                        /\ th[t].this = i
                        /\ th[t].pc \in {"av_swap", "ac_make"}
                        /\ th'[t].pc \in {"av_unlock", "ac_unlock"}
      ]_vars

\* a presence query called on a live empty instance read the null handle,
\* computed false and is about to return, while the other thread is in a
\* presence query on the same instance
C11_Witness ==
    \E t \in Threads : \E u \in Threads \ {t} :
        /\ th[t].pc \in {"ob_unlock", "ii_unlock"}
        /\ th[t].ret = "idle"
        /\ status[th[t].this] = "live"
        /\ ptr[th[t].this] = nullptr
        /\ ~th[t].res
        /\ th[u].pc \in {"ob_lock", "ii_lock"}
        /\ th[u].ret = "idle"
        /\ th[u].this = th[t].this

----------------------------------------------------------------------------
\* C12: each call reads or writes the handle of its own instance in one step
\* taken while it holds that instance's mutex, and what it observed or wrote
\* is still the handle's state when it releases the mutex: a presence query's
\* result tells whether the handle is null, a lookup's pointer is the handle
\* and refers to an allocated cell, assign_value(v) leaves a cell holding v
\* and holds the old cell apart from every handle, and a copy assignment that
\* copied leaves a cell holding the value it read from the source (when the
\* source's cell was not deleted during the copy, which no call on the
\* destination alone can do). After two concurrent assign_value calls on one
\* instance, the only calls made, the instance holds the value of one of
\* them and neither call's leftover cell is the handle's.
C12_LinearizedByLock ==
    /\ \A t \in Threads :
        /\ th[t].pc \in {"av_swap", "av_unlock", "ac_test", "ac_deref", "ac_make",
                         "ac_unlock", "dr_read", "dr_unlock", "ar_read", "ar_unlock",
                         "g_read", "g_unlock"}
              => mutex[th[t].this] = t
        /\ th[t].pc \in {"ob_read", "ob_unlock", "ii_read", "ii_unlock"}
              => mutex[QueryThis(t)] = t
        /\ th[t].pc \in {"ob_unlock", "ii_unlock"}
              => th[t].res = (ptr[QueryThis(t)] # nullptr)
        /\ th[t].pc \in {"dr_unlock", "ar_unlock", "g_unlock"}
              => /\ th[t].ref = ptr[th[t].this]
                 /\ th[t].ref # nullptr => heap[th[t].ref] # 0
        /\ th[t].pc = "av_unlock"
              => /\ ptr[th[t].this] # nullptr
                 /\ heap[ptr[th[t].this]] = th[t].value
                 /\ th[t].new_ptr # ptr[th[t].this]
        /\ (th[t].pc = "ac_unlock" /\ th[t].seen # 0)
              => /\ ptr[th[t].this] # nullptr
                 /\ heap[ptr[th[t].this]] # 0
                 /\ ~th[t].stale => heap[ptr[th[t].this]] = th[t].seen
    /\ \A t \in Threads : \A u \in Threads \ {t} :
        (/\ calls = 2
         /\ th[t].pc = "av_free"
         /\ th[u].pc = "av_free"
         /\ th[t].this = th[u].this)
              => /\ ptr[th[t].this] # nullptr
                 /\ heap[ptr[th[t].this]] \in {th[t].value, th[u].value}
                 /\ th[t].new_ptr # ptr[th[t].this]
                 /\ th[u].new_ptr # ptr[th[t].this]
                 /\ (th[t].new_ptr # nullptr \/ th[u].new_ptr # nullptr)

\* two assign_value calls with different values ran concurrently on one
\* instance and both have swapped
C12_Witness ==
    \E t \in Threads : \E u \in Threads \ {t} :
        /\ th[t].pc = "av_free"
        /\ th[u].pc = "av_free"
        /\ th[t].this = th[u].this
        /\ th[t].value # th[u].value
        /\ heap[ptr[th[t].this]] = th[u].value

----------------------------------------------------------------------------
\* The stress workload: threads call only assign_value, the presence queries
\* and the dereference on live instances, and an instance no call is using
\* may be destroyed

StressCall(t) ==
    \E i \in Insts :
        \/ \E v \in Values : AssignValue(t, i, v)
        \/ OperatorBool(t, i) \/ IsInitialized(t, i)
        \/ Deref(t, i)
        \/ Dtor(t, i)

StressStep(t) ==
    \/ AssignValueMake(t) \/ AssignValueLock(t) \/ AssignValueSwap(t)
    \/ AssignValueUnlock(t) \/ AssignValueFree(t)
    \/ OperatorBoolLock(t) \/ OperatorBoolRead(t) \/ OperatorBoolUnlock(t)
    \/ IsInitializedLock(t) \/ IsInitializedRead(t) \/ IsInitializedUnlock(t)
    \/ DerefLock(t) \/ DerefRead(t) \/ DerefUnlock(t) \/ UseResult(t)
    \/ DtorLock(t) \/ DtorReset(t) \/ DtorUnlock(t)

StressNext == \E t \in Threads : StressCall(t) \/ StressStep(t)

StressSpec == Init /\ [][StressNext]_vars

\* the cells a running assign_value holds in new_ptr: the new cell before the
\* swap, the old cell after it
HeldCells == {th[t].new_ptr : t \in Threads} \ {nullptr}

\* C13: under the stress workload, in every state: a non-null handle refers
\* to an allocated cell that holds one of the values given to a constructor
\* or an assign_value, and to no other instance's cell; every allocated cell
\* is a handle's or is held by one running assign_value, which deletes it
\* before returning, and no cell is held by two calls or is both held after
\* the swap and a handle's (so each is deleted once); an instance that has
\* been destroyed has a null handle; and when no call is running the
\* allocated cells are exactly the handles' cells.
C13_StressKeepsHandleSound ==
    /\ \A i \in Insts :
        /\ ptr[i] # nullptr
              => /\ heap[ptr[i]] \in Values
                 /\ \A j \in Insts \ {i} : ptr[j] # ptr[i]
        /\ status[i] = "dead" => ptr[i] = nullptr
    /\ LiveCells = OwnedCells \cup HeldCells
    /\ \A t \in Threads :
        /\ th[t].new_ptr # nullptr
              => \A u \in Threads \ {t} : th[u].new_ptr # th[t].new_ptr
        /\ th[t].pc \in {"av_lock", "av_swap"}
              => th[t].new_ptr # nullptr /\ heap[th[t].new_ptr] = th[t].value
        /\ th[t].pc \in {"av_lock", "av_swap", "av_unlock", "av_free"}
              => th[t].new_ptr \notin OwnedCells
        /\ th[t].pc \notin {"av_lock", "av_swap", "av_unlock", "av_free"}
              => th[t].new_ptr = nullptr
    /\ (\A t \in Threads : Returned(t)) => LiveCells = OwnedCells

\* a writer's assign_value swapped out a present instance's cell and is about
\* to delete it while a reader is in a presence query or a dereference of the
\* same instance
C13_Witness ==
    \E t \in Threads : \E u \in Threads \ {t} :
        /\ th[t].pc = "av_free"
        /\ th[t].new_ptr # nullptr
        /\ th[u].pc \in {"ob_lock", "ii_lock", "dr_lock"}
        /\ th[u].this = th[t].this

----------------------------------------------------------------------------
----------------------------------------------------------------------------
\* thread t is in get () and holds the instance's mutex
InGet(t) ==
    \/ th[t].pc \in {"g_read", "g_unlock"}
    \/ th[t].pc \in {"ii_lock", "ii_read", "ii_unlock"} /\ th[t].ret = "g_read"

\* C15: get () that has locked a present instance returns with a non-null
\* pointer, in debug and in release builds; get () that has locked an empty
\* instance returns the null pointer in a release build and aborts the
\* process in a debug build.
C15_GetContract ==
    \A t \in Threads :
        /\ (InGet(t) /\ ptr[th[t].this] # nullptr)
              ~> (th[t].pc = "use" /\ th[t].ref # nullptr)
        /\ (InGet(t) /\ ptr[th[t].this] = nullptr /\ build = "release")
              ~> (th[t].pc = "use" /\ th[t].ref = nullptr)
        /\ (InGet(t) /\ ptr[th[t].this] = nullptr /\ build = "debug")
              ~> Aborted

----------------------------------------------------------------------------
\* C16: operator* and operator-> read the handle while holding the mutex and
\* what they are about to return is the handle as it is then, referring to an
\* allocated cell if not null; a thread using a returned pointer holds no
\* mutex; and a returned pointer whose cell has not been deleted since refers
\* to an allocated cell (nothing else is guaranteed of it: see the witness).
C16_LookupOnlyUnderLock ==
    \A t \in Threads :
        /\ th[t].pc \in {"dr_read", "ar_read", "dr_unlock", "ar_unlock"}
              => mutex[th[t].this] = t
        /\ th[t].pc \in {"dr_unlock", "ar_unlock"}
              => /\ th[t].ref = ptr[th[t].this]
                 /\ ~th[t].stale
                 /\ th[t].ref # nullptr => heap[th[t].ref] # 0
        /\ th[t].pc = "use"
              => /\ \A i \in Insts : mutex[i] # t
                 /\ (th[t].ref # nullptr /\ ~th[t].stale) => heap[th[t].ref] # 0

\* a thread is using the reference operator* or operator-> returned (in a
\* debug build, where get () does not return) and an assign_value of another
\* thread has deleted the cell it refers to
C16_Witness ==
    \E t \in Threads :
        /\ build = "debug"
        /\ th[t].pc = "use"
        /\ th[t].ref # nullptr
        /\ th[t].stale
        /\ th[t].ref # ptr[th[t].this]
        /\ heap[th[t].ref] = 0

----------------------------------------------------------------------------
\* C17: assign_value has allocated its new cell, holding the value, before it
\* takes the lock, and does not hold the lock while allocating; it swaps while
\* holding the lock; the old cell is still allocated when the swap is done
\* and the lock released, and is out of the handle when it is deleted. The
\* copy constructor and the copy assignment hold the destination's lock at
\* every statement from the presence test of the source to the unlock, the
\* allocation and copy included.
C17_AllocSwapReleaseOrder ==
    \A t \in Threads :
        /\ th[t].pc \in {"av_make", "av_lock"} => mutex[th[t].this] # t
        /\ th[t].pc = "av_make" => th[t].new_ptr = nullptr
        /\ th[t].pc \in {"av_lock", "av_swap"}
              => /\ th[t].new_ptr # nullptr
                 /\ heap[th[t].new_ptr] = th[t].value
                 /\ ptr[th[t].this] # th[t].new_ptr
        /\ th[t].pc \in {"av_swap", "av_unlock"} => mutex[th[t].this] = t
        /\ th[t].pc \in {"av_unlock", "av_free"}
              => /\ ptr[th[t].this] # th[t].new_ptr
                 /\ th[t].new_ptr # nullptr => heap[th[t].new_ptr] # 0
        /\ th[t].pc = "av_free" => mutex[th[t].this] # t
        /\ th[t].pc \in {"cc_test", "cc_deref", "cc_make", "cc_null", "cc_unlock",
                         "ac_test", "ac_deref", "ac_make", "ac_unlock"}
              => mutex[th[t].this] = t
        /\ th[t].ret \in {"cc_test", "ac_test"} => mutex[th[t].this] = t

\* an assign_value has allocated its cell and waits for the lock another
\* thread holds while it allocates and copies in a copy assignment to the
\* same instance
C17_Witness ==
    \E t \in Threads : \E u \in Threads \ {t} :
        /\ th[t].pc = "av_lock"
        /\ heap[th[t].new_ptr] = th[t].value
        /\ th[u].pc = "ac_make"
        /\ th[u].this = th[t].this
        /\ mutex[th[t].this] = u

----------------------------------------------------------------------------
\* C18: a copy constructor or copy assignment about to copy *other.ptr never
\* holds a pointer to a cell that has been deleted since it read the pointer,
\* and the value it has stored in its new cell is the value the source held
\* when the pointer was read.
C18_CopyReadsLiveCell ==
    \A t \in Threads :
        /\ th[t].pc \in {"cc_make", "ac_make"}
              => ~th[t].stale /\ heap[th[t].ref] = th[t].seen
        /\ (th[t].pc \in {"cc_unlock", "ac_unlock"} /\ th[t].seen # 0)
              => heap[ptr[th[t].this]] = th[t].seen

----------------------------------------------------------------------------
\* C19: a presence query answers true only for an instance whose handle is
\* non-null; and while an instance is live with a non-null handle, every step
\* leaves the handle non-null, every presence query reading it computes true,
\* and every operator*, operator-> and get () lookup reading it obtains a
\* non-null pointer to an allocated cell.
C19_PresenceMonotonic ==
    [][/\ \A t \in Threads :
            (/\ th[t].pc \in {"ob_unlock", "ii_unlock"}
             /\ th'[t].pc \notin {"ob_unlock", "ii_unlock", "fault"}
             /\ th[t].res)
                  => ptr[QueryThis(t)] # nullptr
       /\ \A i \in Insts :
            (status[i] = "live" /\ ptr[i] # nullptr)
                  => /\ ptr'[i] # nullptr
                     /\ \A t \in Threads :
                          /\ (/\ th[t].pc \in {"ob_read", "ii_read"}
                              /\ QueryThis(t) = i
                              /\ th'[t].pc \in {"ob_unlock", "ii_unlock"})
                                => th'[t].res
                          /\ (/\ th[t].pc \in {"dr_read", "ar_read", "g_read"}
                              /\ th[t].this = i
                              /\ th'[t].pc \in {"dr_unlock", "ar_unlock", "g_unlock"})
                                => /\ th'[t].ref # nullptr
                                   /\ heap'[th'[t].ref] # 0
      ]_vars

\* a presence query on a live instance answered true and is about to return
\* while the other thread, in a copy assignment to that instance from an
\* empty source, waits for the lock: the instance is still present
C19_Witness ==
    \E t \in Threads : \E u \in Threads \ {t} :
        /\ th[t].pc \in {"ob_unlock", "ii_unlock"}
        /\ th[t].ret = "idle"
        /\ th[t].res
        /\ status[th[t].this] = "live"
        /\ th[u].pc = "ac_lock"
        /\ th[u].this = th[t].this
        /\ ptr[th[u].other] = nullptr

----------------------------------------------------------------------------
\* thread t is in a copy assignment of an instance to itself and holds its
\* mutex
InSelfAssign(t) == InAssignCopy(t) /\ th[t].other = th[t].this /\ mutex[th[t].this] = t

\* C20: a copy assignment of an instance to itself that has taken the lock
\* returns, and none of its steps changes the instance's handle or the value
\* of its cell.
C20_SelfAssignTerminates ==
    /\ \A t \in Threads : InSelfAssign(t) ~> (th[t].pc = "idle")
    /\ [][\A t \in Threads :
            (InSelfAssign(t) /\ th'[t].pc \notin {th[t].pc, "fault"})
                  => /\ ptr'[th[t].this] = ptr[th[t].this]
                     /\ ptr[th[t].this] # nullptr
                           => heap'[ptr[th[t].this]] = heap[ptr[th[t].this]]
         ]_vars

====
